---- MODULE Spec2Model ----
(***************************************************************************)
(* Cacheable iterators: CacheableIteratorWrapper / CacheableIterator       *)
(* (cacheable_iterators/sync.py) and CacheableAsyncIteratorWrapper /       *)
(* CacheableAsyncIterator (cached_iterators/_async.py).                    *)
(*                                                                         *)
(* One wrapper owns a single-pass source (`iterator`), the cache           *)
(* (`values`) and the flag `done`.  Every __iter__ / __aiter__ call makes  *)
(* a cursor with its own `index`.  The synchronous __next__ is one atomic  *)
(* step; the asynchronous __anext__ has one suspension point, the awaited  *)
(* pull of the source (`await anext(self.wrapper.iterator)`), so it is     *)
(* split there into two steps.                                             *)
(***************************************************************************)
EXTENDS Integers, Sequences, FiniteSets, TLC

\* ------------------------------------------------------------- bounds
MaxLen == 2          \* longest source sequence
MaxCursors == 2      \* cursors one wrapper hands out
MaxCalls == 6        \* next() calls over all cursors
MaxFailures == 1     \* failures the source raises
MaxWrappers == 2     \* calls of the function the adapter returns

Cursors == 1..MaxCursors
NoValue == -1

VARIABLES
    variant,      \* "sync": sync.py, "async": _async.py
    S,            \* the sequence the source produces when pulled to its end
    reentrant,    \* async source accepts a pull while another is suspended
    srcPos,       \* number of values the source has produced
    srcClosed,    \* the source has terminated (StopIteration from now on)
    failures,     \* number of failures the source has raised
    values,       \* wrapper.values
    done,         \* wrapper.done
    mangledDone,  \* wrapper._CacheableIterator__done (what `self.wrapper.__done` names)
    ncursors,     \* cursors created so far
    kind,         \* per cursor: "cacheable" | "list" | "none"
    index,        \* per cursor: CacheableIterator.index
    pc,           \* per cursor: "idle" | "pulling" (suspended in the awaited pull)
    pending,      \* per cursor: outcome of the pull it is suspended in
    out,          \* per cursor: the values next() has returned, in order
    ended,        \* per cursor: has signalled StopIteration at least once
    last,         \* per cursor: result of its latest finished next()
    ncalls,       \* per cursor: next() calls started
    npulls,       \* per cursor: invocations of the source's pull
    postEnd,      \* per cursor: results of the next() calls started after it ended
    lenAtBirth,   \* per cursor: len(values) when the cursor was created
    bornAfter,    \* per cursor: every earlier cursor had ended when it was created
    innerCalls,   \* arguments of the calls of the adapter's `inner`, in order
    funcCalls,    \* arguments of the calls of the adapted function, in order
    parked,       \* the wrappers of the earlier `inner` calls: [args, values, done]
    spent         \* next() calls made on the parked wrappers' cursors

srcVars == <<S, reentrant, srcPos, srcClosed, failures>>
wrapperVars == <<values, done, mangledDone>>
cursorVars == <<ncursors, kind, index, pc, pending>>
birthVars == <<lenAtBirth, bornAfter>>
historyVars == <<out, ended, last, ncalls, npulls, postEnd>>
adapterVars == <<innerCalls, funcCalls, parked, spent>>
vars == <<variant, srcVars, wrapperVars, cursorVars, birthVars, historyVars,
          adapterVars>>

\* ------------------------------------------------------------ helpers
RECURSIVE SumTo(_, _)
SumTo(f, n) == IF n = 0 THEN 0 ELSE f[n] + SumTo(f, n - 1)

TotalCalls == spent + SumTo(ncalls, MaxCursors)
PullCalls == SumTo(npulls, MaxCursors)

\* The tests' source, `for i in range(n): yield i`, for a length n.
generate_numbers(n) == [i \in 1..n |-> i - 1]

IsPrefix(s, t) == Len(s) <= Len(t) /\ s = SubSeq(t, 1, Len(s))

Created == 1..ncursors

MaxIndex == IF ncursors = 0 THEN 0
            ELSE CHOOSE m \in {index[c] : c \in Created} :
                     \A c \in Created : index[c] <= m

InFlight == {c \in Created : pc[c] = "pulling"}

NoOutcome == [res |-> "none", val |-> NoValue]

\* ------------------------------------------------------------- source
\* What one pull of the source can do in the current source state: the next
\* value, the clean end, or (within the failure budget) a failure after which
\* the source is either still usable or terminated (a generator that raised).
SourceOutcomes ==
    (IF ~srcClosed /\ srcPos < Len(S)
        THEN {[res |-> "value", val |-> S[srcPos + 1], pos |-> srcPos + 1,
               closed |-> FALSE, failed |-> 0]}
        ELSE {[res |-> "end", val |-> NoValue, pos |-> srcPos,
               closed |-> TRUE, failed |-> 0]})
    \cup
    (IF ~srcClosed /\ failures < MaxFailures
        THEN {[res |-> "fail", val |-> NoValue, pos |-> srcPos,
               closed |-> cl, failed |-> 1] : cl \in BOOLEAN}
        ELSE {})

\* The source's own state after the pull.
SourceAfter(o) ==
    /\ srcPos' = o.pos
    /\ srcClosed' = o.closed
    /\ failures' = failures + o.failed
    /\ UNCHANGED <<S, reentrant>>

\* ------------------------------------------------------------ wrapper
\* CacheableIteratorWrapper.__init__ / CacheableAsyncIteratorWrapper.__init__
InitValues == <<>>
InitDone == FALSE

Init ==
    /\ variant \in {"sync", "async"}
    /\ S \in {generate_numbers(n) : n \in 0..MaxLen}
    /\ reentrant \in (IF variant = "async" THEN BOOLEAN ELSE {FALSE})
    /\ srcPos = 0
    /\ srcClosed = FALSE
    /\ failures = 0
    /\ values = InitValues
    /\ done = InitDone
    /\ mangledDone = FALSE
    /\ ncursors = 0
    /\ kind = [c \in Cursors |-> "none"]
    /\ index = [c \in Cursors |-> 0]
    /\ pc = [c \in Cursors |-> "idle"]
    /\ pending = [c \in Cursors |-> NoOutcome]
    /\ out = [c \in Cursors |-> <<>>]
    /\ ended = [c \in Cursors |-> FALSE]
    /\ last = [c \in Cursors |-> "none"]
    /\ ncalls = [c \in Cursors |-> 0]
    /\ npulls = [c \in Cursors |-> 0]
    /\ postEnd = [c \in Cursors |-> {}]
    /\ lenAtBirth = [c \in Cursors |-> 0]
    /\ bornAfter = [c \in Cursors |-> FALSE]
    /\ innerCalls = <<>>
    /\ funcCalls = <<>>
    /\ parked = <<>>
    /\ spent = 0

\* __iter__ / __aiter__: `if self.done: return iter(self.values)` (async:
\* AsyncIteratorWrapper(iter(self.values))), else a cacheable cursor.
CursorKind == IF done THEN "list" ELSE "cacheable"

\* Variant of StartIndex that starts a cursor where the cache ends.
StartIndex_AtCacheEnd == Len(values)

\* CacheableIterator.__init__ / CacheableAsyncIterator.__init__: self.index = 0
StartIndex == 0

Iter ==
    /\ ncursors < MaxCursors
    /\ LET c == ncursors + 1 IN
        /\ ncursors' = c
        /\ kind' = [kind EXCEPT ![c] = CursorKind]
        /\ index' = [index EXCEPT ![c] = StartIndex]
        /\ lenAtBirth' = [lenAtBirth EXCEPT ![c] = Len(values)]
        /\ bornAfter' = [bornAfter EXCEPT ![c] = \A d \in Created : ended[d]]
    /\ UNCHANGED <<variant, adapterVars, srcVars, wrapperVars, pc, pending, historyVars>>

\* ------------------------------------------------------------- cursor
\* Variant of HasCached that never finds a cached value (always pulls).
HasCached_Never(c) == FALSE

\* `if self.index < len(self.wrapper.values)`
HasCached(c) == index[c] < Len(values)

\* Variant of ReadCache reading `values[self.index - 1]` (Python wraps -1 to
\* the last element).
ReadCache_Previous(c) == values[IF index[c] = 0 THEN Len(values) ELSE index[c]]

\* `value = self.wrapper.values[self.index]`
ReadCache(c) == values[index[c] + 1]

\* Variant of Advance that forgets to step.
Advance_Stuck(i) == i

\* Variant of Advance stepping by two.
Advance_Twice(i) == i + 2

\* `self.index += 1`
Advance(i) == i + 1

\* Variant of Store inserting at the front, `values.insert(0, value)`.
Store_Front(v) == <<v>> \o values

\* `self.wrapper.values.append(value)`
Store(v) == Append(values, v)

\* `self.wrapper.__done = True` inside class CacheableIterator /
\* CacheableAsyncIterator: the name is mangled, so the attribute written is
\* _CacheableIterator__done and wrapper.done keeps its value.
MarkDone ==
    /\ mangledDone' = TRUE
    /\ done' = done

\* A next() call of cursor c begins.
CallBegins(c) ==
    /\ c \in Created
    /\ kind[c] = "cacheable"
    /\ pc[c] = "idle"
    /\ TotalCalls < MaxCalls
    /\ ncalls' = [ncalls EXCEPT ![c] = @ + 1]

\* The result r of a next() call of cursor c reaches its caller.
Returns(c, r, v) ==
    /\ last' = [last EXCEPT ![c] = r]
    /\ out' = [out EXCEPT ![c] = IF r = "value" THEN Append(@, v) ELSE @]
    /\ ended' = [ended EXCEPT ![c] = @ \/ r = "end"]
    /\ postEnd' = [postEnd EXCEPT ![c] = IF ended[c] THEN @ \cup {r} ELSE @]

\* The cached branch: lines 69-70 and 80-82 (async 114-115, 125-127).
CachedRead(c) ==
    /\ HasCached(c)
    /\ index' = [index EXCEPT ![c] = Advance(@)]
    /\ Returns(c, "value", ReadCache(c))
    /\ UNCHANGED <<srcVars, wrapperVars, npulls>>

\* Variant of Deliver that advances the position in a `finally`, so also when
\* the pull failed.
Deliver_AdvanceOnFail(c, o) ==
    /\ CASE o.res = "value" ->
              /\ values' = Append(values, o.val)
              /\ index' = [index EXCEPT ![c] = @ + 1]
              /\ UNCHANGED <<done, mangledDone>>
         [] o.res = "end" ->
              /\ mangledDone' = TRUE
              /\ UNCHANGED <<values, index, done>>
         [] OTHER ->
              /\ index' = [index EXCEPT ![c] = @ + 1]
              /\ UNCHANGED <<values, done, mangledDone>>
    /\ Returns(c, o.res, o.val)

\* Variant of Deliver that takes a falsy value (0) for the end of the source.
Deliver_FalsyEnds(c, o) ==
    /\ CASE o.res = "value" /\ o.val # 0 ->
              /\ values' = Append(values, o.val)
              /\ index' = [index EXCEPT ![c] = @ + 1]
              /\ UNCHANGED <<done, mangledDone>>
         [] o.res \in {"value", "end"} ->
              /\ mangledDone' = TRUE
              /\ UNCHANGED <<values, index, done>>
         [] OTHER ->
              UNCHANGED <<values, index, done, mangledDone>>
    /\ Returns(c, IF o.res = "value" /\ o.val = 0 THEN "end" ELSE o.res, o.val)

\* What the cursor does with the outcome o of its pull: lines 72-82
\* (async 117-127).
Deliver(c, o) ==
    /\ CASE o.res = "value" ->
              /\ values' = Store(o.val)
              /\ index' = [index EXCEPT ![c] = Advance(@)]
              /\ UNCHANGED <<done, mangledDone>>
         [] o.res = "end" ->
              /\ MarkDone
              /\ UNCHANGED <<values, index>>
         [] OTHER ->
              UNCHANGED <<values, index, done, mangledDone>>
    /\ Returns(c, o.res, o.val)

\* The pull branch of the synchronous __next__: `next(self.wrapper.iterator)`
\* and what follows, in one step.
Realize(c) ==
    /\ ~HasCached(c)
    /\ npulls' = [npulls EXCEPT ![c] = @ + 1]
    /\ \E o \in SourceOutcomes :
        /\ SourceAfter(o)
        /\ Deliver(c, o)

\* CacheableIterator.__next__
SyncNext(c) ==
    /\ variant = "sync"
    /\ CallBegins(c)
    /\ (CachedRead(c) \/ Realize(c))
    /\ UNCHANGED <<variant, adapterVars, ncursors, kind, pc, pending, birthVars>>

\* CacheableAsyncIterator.__anext__, cached branch: no await is reached.
AsyncCached(c) ==
    /\ variant = "async"
    /\ CallBegins(c)
    /\ CachedRead(c)
    /\ UNCHANGED <<variant, adapterVars, ncursors, kind, pc, pending, birthVars>>

\* CacheableAsyncIterator.__anext__ up to the suspension inside
\* `await anext(self.wrapper.iterator)`: the source is entered and takes its
\* decision, then the task is suspended.  (A pull that does not suspend is
\* this step followed at once by AsyncResume.)  An async generator accepts
\* one pull at a time and, once terminated, answers without suspending.
AsyncPull(c) ==
    /\ variant = "async"
    /\ CallBegins(c)
    /\ ~HasCached(c)
    /\ reentrant \/ (InFlight = {} /\ ~srcClosed)
    /\ npulls' = [npulls EXCEPT ![c] = @ + 1]
    /\ \E o \in SourceOutcomes :
        /\ SourceAfter(o)
        /\ pending' = [pending EXCEPT ![c] = [res |-> o.res, val |-> o.val]]
    /\ pc' = [pc EXCEPT ![c] = "pulling"]
    /\ UNCHANGED <<variant, adapterVars, wrapperVars, ncursors, kind, index, birthVars,
                   out, ended, last, postEnd>>

\* The same call on a terminated async generator: StopAsyncIteration is
\* raised with no suspension, and handled at lines 119-121.
AsyncPullEnded(c) ==
    /\ variant = "async"
    /\ CallBegins(c)
    /\ ~HasCached(c)
    /\ ~reentrant /\ InFlight = {} /\ srcClosed
    /\ npulls' = [npulls EXCEPT ![c] = @ + 1]
    /\ \E o \in SourceOutcomes :
        /\ SourceAfter(o)
        /\ Deliver(c, o)
    /\ UNCHANGED <<variant, adapterVars, ncursors, kind, pc, pending, birthVars>>

\* The same call on an async generator that is suspended in another cursor's
\* pull: anext() raises RuntimeError, which leaves __anext__ uncaught.
AsyncBusy(c) ==
    /\ variant = "async"
    /\ CallBegins(c)
    /\ ~HasCached(c)
    /\ ~reentrant /\ InFlight # {}
    /\ npulls' = [npulls EXCEPT ![c] = @ + 1]
    /\ Returns(c, "busy", NoValue)
    /\ UNCHANGED <<variant, adapterVars, srcVars, wrapperVars, cursorVars, birthVars>>

\* CacheableAsyncIterator.__anext__ resumed: the awaited pull finishes.
AsyncResume(c) ==
    /\ variant = "async"
    /\ c \in Created
    /\ pc[c] = "pulling"
    /\ Deliver(c, pending[c])
    /\ pc' = [pc EXCEPT ![c] = "idle"]
    /\ pending' = [pending EXCEPT ![c] = NoOutcome]
    /\ UNCHANGED <<variant, adapterVars, srcVars, ncursors, kind, birthVars, ncalls, npulls>>

Next ==
    \/ Iter
    \/ \E c \in Cursors : SyncNext(c)
    \/ \E c \in Cursors : AsyncCached(c)
    \/ \E c \in Cursors : AsyncPull(c)
    \/ \E c \in Cursors : AsyncPullEnded(c)
    \/ \E c \in Cursors : AsyncBusy(c)
    \/ \E c \in Cursors : AsyncResume(c)

Spec == Init /\ [][Next]_vars

\* ------------------------------------------------------------ adapter
\* cacheable_iterator(__func) / cacheable_async_iterator(__func): the wrapper
\* state in the variables above is that of the wrapper the latest call of
\* `inner` returned; the wrappers of earlier calls are kept in `parked`.
\* The adapted function is the tests' generate_numbers with a length argument.

\* The wrapper in the variables, as it is kept once a later call has made
\* another one.
ParkedWrapper == [args |-> innerCalls[Len(innerCalls)], values |-> values,
                  done |-> done]

\* Variant of Inner whose wrappers keep their cache in one list shared by the
\* class (`values = []` in the class body instead of in __init__).
Inner_SharedCache(n) ==
    /\ Len(innerCalls) < MaxWrappers
    /\ innerCalls' = Append(innerCalls, n)
    /\ funcCalls' = Append(funcCalls, n)
    /\ parked' = IF innerCalls = <<>> THEN parked ELSE Append(parked, ParkedWrapper)
    /\ spent' = TotalCalls
    /\ S' = generate_numbers(n)
    /\ srcPos' = 0
    /\ srcClosed' = FALSE
    /\ failures' = 0
    /\ values' = values
    /\ done' = InitDone
    /\ mangledDone' = FALSE
    /\ ncursors' = 0
    /\ kind' = [c \in Cursors |-> "none"]
    /\ index' = [c \in Cursors |-> 0]
    /\ pc' = [c \in Cursors |-> "idle"]
    /\ pending' = [c \in Cursors |-> NoOutcome]
    /\ out' = [c \in Cursors |-> <<>>]
    /\ ended' = [c \in Cursors |-> FALSE]
    /\ last' = [c \in Cursors |-> "none"]
    /\ ncalls' = [c \in Cursors |-> 0]
    /\ npulls' = [c \in Cursors |-> 0]
    /\ postEnd' = [c \in Cursors |-> {}]
    /\ lenAtBirth' = [c \in Cursors |-> 0]
    /\ bornAfter' = [c \in Cursors |-> FALSE]
    /\ UNCHANGED <<variant, reentrant>>

\* inner(*args, **kwargs): `return CacheableIteratorWrapper(__func(*args,
\* **kwargs))`: the adapted function is called once with the arguments, and
\* __init__ runs on a new wrapper around the iterator it returned.
Inner(n) ==
    /\ Len(innerCalls) < MaxWrappers
    /\ innerCalls' = Append(innerCalls, n)
    /\ funcCalls' = Append(funcCalls, n)
    /\ parked' = IF innerCalls = <<>> THEN parked ELSE Append(parked, ParkedWrapper)
    /\ spent' = TotalCalls
    /\ S' = generate_numbers(n)
    /\ srcPos' = 0
    /\ srcClosed' = FALSE
    /\ failures' = 0
    /\ values' = InitValues
    /\ done' = InitDone
    /\ mangledDone' = FALSE
    /\ ncursors' = 0
    /\ kind' = [c \in Cursors |-> "none"]
    /\ index' = [c \in Cursors |-> 0]
    /\ pc' = [c \in Cursors |-> "idle"]
    /\ pending' = [c \in Cursors |-> NoOutcome]
    /\ out' = [c \in Cursors |-> <<>>]
    /\ ended' = [c \in Cursors |-> FALSE]
    /\ last' = [c \in Cursors |-> "none"]
    /\ ncalls' = [c \in Cursors |-> 0]
    /\ npulls' = [c \in Cursors |-> 0]
    /\ postEnd' = [c \in Cursors |-> {}]
    /\ lenAtBirth' = [c \in Cursors |-> 0]
    /\ bornAfter' = [c \in Cursors |-> FALSE]
    /\ UNCHANGED <<variant, reentrant>>

\* After decoration and before the first call of `inner` no wrapper exists.
\* The adapted function is a generator function, as in the tests, so its
\* iterators accept one pull at a time.
InitAdapter == Init /\ S = <<>> /\ ~reentrant

\* The tests iterate the wrapper `inner` returned twice, one pass after the
\* other (first_pass, second_pass).
Passes == 2

PassBegins ==
    /\ ncursors < Passes
    /\ \A d \in Created : ended[d]
    /\ Iter

\* Calls of `inner`, and on the wrapper of the latest call the passes and
\* their next() calls.  (With one pass at a time no pull finds the generator
\* busy.)
NextAdapter ==
    \/ \E n \in 0..MaxLen : Inner(n)
    \/ (innerCalls # <<>> /\ PassBegins)
    \/ (innerCalls # <<>> /\ \E c \in Cursors : SyncNext(c))
    \/ (innerCalls # <<>> /\ \E c \in Cursors : AsyncCached(c))
    \/ (innerCalls # <<>> /\ \E c \in Cursors : AsyncPull(c))
    \/ (innerCalls # <<>> /\ \E c \in Cursors : AsyncPullEnded(c))
    \/ (innerCalls # <<>> /\ \E c \in Cursors : AsyncResume(c))

SpecAdapter == InitAdapter /\ [][NextAdapter]_vars

\* ------------------------------------------------------ replay branch
\* `done` is a public attribute that no code of the wrapper or its cursors
\* ever assigns after __init__ (MarkDone writes another attribute).  The
\* branch `if self.done` of __iter__ / __aiter__ is therefore taken only for
\* a wrapper whose client assigns `wrapper.done = True`; the client modelled
\* here does so once a cursor has found the source exhausted.
ClientSetsDone ==
    /\ mangledDone
    /\ ~done
    /\ done' = TRUE
    /\ UNCHANGED <<variant, adapterVars, srcVars, values, mangledDone,
                   cursorVars, birthVars, historyVars>>

\* A next() call of the replay cursor c begins.
ListCallBegins(c) ==
    /\ c \in Created
    /\ kind[c] = "list"
    /\ TotalCalls < MaxCalls
    /\ ncalls' = [ncalls EXCEPT ![c] = @ + 1]

\* next() of `iter(self.values)`, the list iterator: the element at its
\* position, or StopIteration at the end of the list.
ListNext(c) ==
    /\ variant = "sync"
    /\ ListCallBegins(c)
    /\ IF index[c] < Len(values)
          THEN /\ index' = [index EXCEPT ![c] = @ + 1]
               /\ Returns(c, "value", values[index[c] + 1])
          ELSE /\ index' = index
               /\ Returns(c, "end", NoValue)
    /\ UNCHANGED <<variant, adapterVars, srcVars, wrapperVars, ncursors, kind,
                   pc, pending, birthVars, npulls>>

\* AsyncIteratorWrapper.__anext__: `next(self._sync_iterator)` reads an
\* attribute __init__ never sets (it sets `self.iterator`): AttributeError,
\* which `except StopIteration` does not catch.
AsyncListNext(c) ==
    /\ variant = "async"
    /\ ListCallBegins(c)
    /\ Returns(c, "error", NoValue)
    /\ UNCHANGED <<variant, adapterVars, srcVars, wrapperVars, cursorVars,
                   birthVars, npulls>>

NextReplay ==
    \/ Next
    \/ ClientSetsDone
    \/ \E c \in Cursors : ListNext(c)
    \/ \E c \in Cursors : AsyncListNext(c)

SpecReplay == Init /\ [][NextReplay]_vars

\* ------------------------------------------------- scheduled consumers
\* Synchronous consumers that call next() until it raises StopIteration, as
\* `list(cached_iter)` and a `for` loop do, each of them scheduled again and
\* again while it has not finished.  The sources are those every cursor can
\* exhaust within the bound on calls.
LiveNext(c) ==
    /\ ~ended[c]
    /\ SyncNext(c)

InitLive ==
    /\ Init
    /\ variant = "sync"
    /\ MaxCursors * (Len(S) + 1) <= MaxCalls

NextLive ==
    \/ Iter
    \/ \E c \in Cursors : LiveNext(c)

SpecLive ==
    /\ InitLive
    /\ [][NextLive]_vars
    /\ \A c \in Cursors : WF_vars(LiveNext(c))

TypeOK ==
    /\ variant \in {"sync", "async"}
    /\ srcPos \in 0..Len(S)
    /\ ncursors \in 0..MaxCursors
    /\ \A c \in Cursors : index[c] \in 0..Len(values)
    /\ IsPrefix(<<>>, values)

\* ============================================================== claims
\* Every cursor so far was created only after all earlier cursors had
\* signalled the end: the passes were made one after the other.
Serial == \A d \in Created : bornAfter[d]

AllEnded == ncursors > 0 /\ \A c \in Created : ended[c]

\* C1 (idempotent replay): with a source that raises no failure, every cursor
\* of a run of passes made one after the other, once it has signalled the end,
\* has returned exactly S in order; in particular the first and the second
\* pass.  Both variants.
C1_IdempotentReplay ==
    \A c \in Created :
        (failures = 0 /\ Serial /\ ended[c]) => out[c] = S

C1_Witness ==
    /\ variant = "async"
    /\ ncursors >= 2 /\ Serial /\ failures = 0
    /\ ended[1] /\ ended[2]
    /\ Len(S) = MaxLen
    /\ out[1] = S /\ out[2] = S

\* C2 (synchronous interleaving): whatever the order of the atomic next()
\* calls and of cursor creation, the values returned to a cursor are a prefix
\* of S, as long as its position.
C2_SyncPrefix ==
    variant = "sync" =>
        \A c \in Created : IsPrefix(out[c], S) /\ Len(out[c]) = index[c]

C2_Witness ==
    /\ variant = "sync" /\ ncursors = 2
    /\ lenAtBirth[2] = 0
    /\ npulls[1] > 0 /\ npulls[2] > 0
    /\ out[1] = S /\ out[2] = S /\ Len(S) = MaxLen

\* C3 (at-most-once realization, single consumer): with a source that raises
\* no failure, once the first pass has signalled the end the source has
\* produced exactly len(S) values, and a pass begun after it leaves that count
\* where it was when the pass began (the cache length then).
C3_PullCount ==
    failures = 0 =>
        \A c \in Created :
            /\ (Serial /\ ended[c]) => srcPos = Len(S)
            /\ (Serial /\ c > 1) => (srcPos = lenAtBirth[c] /\ srcPos = Len(S))

C3_Witness ==
    /\ variant = "sync"
    /\ ncursors >= 2 /\ Serial /\ failures = 0
    /\ ended[1] /\ ended[2]
    /\ Len(S) = MaxLen /\ srcPos = MaxLen
    /\ out[2] = S

\* C4 (partial interleave, synchronous): the number of values pulled equals
\* the cache length and the largest cursor position; a cursor created when the
\* cache held j values gets its first j results from the cache, the same
\* values, without invoking the source; and when every cursor has signalled
\* the end of a source that raised no failure, len(S) values were pulled.
C4_PartialInterleave ==
    variant = "sync" =>
        /\ srcPos = Len(values)
        /\ Len(values) = MaxIndex
        /\ \A c \in Created :
              ncalls[c] <= lenAtBirth[c] =>
                  /\ npulls[c] = 0
                  /\ out[c] = SubSeq(values, 1, ncalls[c])
        /\ (AllEnded /\ failures = 0) => srcPos = Len(S)

C4_Witness ==
    /\ variant = "sync" /\ ncursors = 2
    /\ lenAtBirth[2] = 1 /\ Len(S) = 2
    /\ ended[1] /\ ended[2] /\ failures = 0
    /\ npulls[2] > 0
    /\ srcPos = 2

\* C5 (terminal stability), as claimed: every next() call a cursor starts
\* after it has signalled the end signals the end again.
C5_TerminalStability ==
    \A c \in Created : postEnd[c] \subseteq {"end"}

\* C6 (no pull after the end), as claimed: a cursor that has signalled the end
\* never invokes the source's pull again.
C6_NoPullAfterEnd ==
    [][\A c \in Cursors : ended[c] => npulls'[c] = npulls[c]]_vars

\* The step in which a next() call of cursor c hands a source failure to its
\* caller.
FailStep(c) ==
    /\ last'[c] = "fail"
    /\ IF variant = "sync"
          THEN ncalls'[c] = ncalls[c] + 1
          ELSE pc[c] = "pulling" /\ pc'[c] = "idle"

\* Cursor c starts a next() call, its latest call having ended in a failure.
RetryStep(c) ==
    /\ last[c] = "fail"
    /\ ncalls'[c] = ncalls[c] + 1

\* C7 (failure non-corruption), as claimed: the call that fails changes
\* neither the cache, nor any position, nor any cursor's ended state, nor the
\* flag, and the next call of that cursor invokes the source's pull again.
C7_RetryAlwaysPulls ==
    [][\A c \in Cursors :
          /\ FailStep(c) => UNCHANGED <<values, index, ended, done, mangledDone, out>>
          /\ RetryStep(c) => npulls'[c] = npulls[c] + 1]_vars

\* C7 as amended: the same, but the next call of that cursor invokes the
\* source's pull again when the cache has not grown past the cursor's position
\* meanwhile; when another cursor has realized that position, the call reads
\* it from the cache and invokes nothing.
C7_FailureNonCorruption ==
    [][\A c \in Cursors :
          /\ FailStep(c) => UNCHANGED <<values, index, ended, done, mangledDone, out>>
          /\ RetryStep(c) =>
                IF index[c] >= Len(values)
                   THEN npulls'[c] = npulls[c] + 1
                   ELSE /\ npulls'[c] = npulls[c]
                        /\ out'[c] = Append(out[c], values[index[c] + 1])]_vars

C7_Witness ==
    /\ ncursors = 1 /\ failures = 1
    /\ ncalls[1] = 3 /\ npulls[1] = 3
    /\ out[1] = <<0, 1>> /\ index[1] = 2 /\ values = <<0, 1>>
    /\ ~ended[1]

\* C8 (suspending variant, concurrent cursors), as claimed: the values
\* returned to every cursor are a prefix of S and the cache is a prefix of S.
C8_AsyncPrefix ==
    variant = "async" =>
        /\ IsPrefix(values, S)
        /\ \A c \in Created : IsPrefix(out[c], S)

\* C9 (suspending variant), as claimed: at most one cursor is suspended in
\* the awaited pull of the source.
C9_OnePullInFlight ==
    variant = "async" => Cardinality(InFlight) <= 1

\* C10 (laziness): before any next() call nothing was pulled, and creating a
\* cursor pulls nothing; the source's pull is invoked only within a next()
\* call of a cursor whose position equals the cache length; and while the
\* wrapper has a single cursor, between its calls the source has produced as
\* many values as that cursor was returned.
C10_Laziness ==
    /\ [](TotalCalls = 0 => (PullCalls = 0 /\ srcPos = 0))
    /\ []((ncursors = 1 /\ pc[1] = "idle") => srcPos = Len(out[1]))
    /\ [][/\ ncursors' # ncursors => (npulls' = npulls /\ srcPos' = srcPos)
          /\ \A c \in Cursors :
                npulls'[c] # npulls[c] =>
                    /\ ncalls'[c] = ncalls[c] + 1
                    /\ index[c] = Len(values)
          /\ srcPos' # srcPos => \E c \in Cursors : npulls'[c] = npulls[c] + 1]_vars

C10_Witness ==
    /\ variant = "sync" /\ ncursors = 1
    /\ Len(out[1]) = 2 /\ srcPos = 2 /\ npulls[1] = 2
    /\ lenAtBirth[1] = 0

\* C11 (adapter): every call of `inner` calls the adapted function once with
\* the same arguments; the wrapper it returns starts with an empty cache, the
\* flag unset, no cursor and an unconsumed source that is that call's
\* sequence, whatever the earlier wrappers hold; the earlier wrappers' caches
\* are not changed by what happens to a later wrapper; and the wrapper
\* replays: passes made one after the other each return its sequence.
C11_Adapter ==
    /\ [](funcCalls = innerCalls)
    /\ [](innerCalls # <<>> =>
            /\ S = generate_numbers(innerCalls[Len(innerCalls)])
            /\ C1_IdempotentReplay)
    /\ [][Len(innerCalls') > Len(innerCalls) =>
            /\ values' = <<>> /\ done' = FALSE
            /\ ncursors' = 0 /\ srcPos' = 0
            /\ Len(funcCalls') = Len(funcCalls) + 1
            /\ \A w \in 1..Len(parked) : parked'[w] = parked[w]]_vars
    /\ [][Len(innerCalls') = Len(innerCalls) => parked' = parked]_vars

C11_Witness ==
    /\ Len(innerCalls) = 2
    /\ parked[1].values = <<0, 1>>
    /\ values = <<0>> /\ S = <<0>>
    /\ ncursors = 2 /\ Serial /\ failures = 0
    /\ ended[1] /\ ended[2]
    /\ out[1] = S /\ out[2] = S

\* The step in which a next() call of cursor c finishes with result r.
FinishStep(c, r) ==
    /\ last'[c] = r
    /\ pc'[c] = "idle"
    /\ ncalls'[c] = ncalls[c] + 1 \/ pc[c] = "pulling"

\* C12 (completion flag), as claimed: the call whose pull finds the source
\* cleanly exhausted sets the flag __iter__ consults (`done`), appends nothing
\* and signals the end.
C12_EndSetsFlag ==
    [][\A c \in Cursors :
          (FinishStep(c, "end") /\ kind[c] = "cacheable") =>
              /\ done' = TRUE
              /\ values' = values
              /\ ended'[c]]_vars

\* C13 (replay branch), as claimed: a cursor handed out while the flag is set
\* returns the cache contents in order and then the end, raises nothing else
\* and never invokes the source.
C13_ReplayBranch ==
    \A c \in Created :
        kind[c] = "list" =>
            /\ last[c] \in {"none", "value", "end"}
            /\ npulls[c] = 0
            /\ IsPrefix(out[c], values)
            /\ ended[c] => out[c] = values

SomeEnded == \E c \in Created : ended[c]

\* C14 (append-only, final after completion), as claimed: every step leaves
\* the old cache a prefix of the new one; once the source has signalled
\* exhaustion to a cursor the cache never changes again, and (the source
\* having raised no failure) it equals S.
C14_AppendOnlyFinal ==
    /\ [][IsPrefix(values, values')]_vars
    /\ [][SomeEnded => values' = values]_vars
    /\ []((SomeEnded /\ failures = 0) => values = S)

\* C15 (cursor position): a new cursor starts at zero; no position exceeds the
\* cache length + 1; the call that returns a value moves its cursor's position
\* up by exactly one, the call that signals the end or hands on a failure
\* leaves it, and nothing else moves a position.
C15_PositionInvariant ==
    /\ [](\A c \in Created : index[c] \in 0..(Len(values) + 1))
    /\ [][ncursors' = ncursors + 1 => index'[ncursors'] = 0]_vars
    /\ [][\A c \in Created :
            /\ FinishStep(c, "value") => index'[c] = index[c] + 1
            /\ (FinishStep(c, "end") \/ FinishStep(c, "fail")) => index'[c] = index[c]
            /\ index'[c] # index[c] => FinishStep(c, "value")]_vars

C15_Witness ==
    /\ ncursors = 1 /\ failures = 1
    /\ ncalls[1] = 4 /\ index[1] = 2 /\ ended[1]
    /\ Len(values) = 2

\* C17 (cached read): a next() call begun with the cursor's position below
\* the cache length returns the cached value at that position and moves only
\* that cursor's position, by one; it invokes no pull, does not suspend, and
\* leaves cache, flag and source as they were.
C17_CachedReadFrame ==
    [][\A c \in Created :
          (ncalls'[c] = ncalls[c] + 1 /\ index[c] < Len(values)) =>
              /\ last'[c] = "value"
              /\ out'[c] = Append(out[c], values[index[c] + 1])
              /\ index' = [index EXCEPT ![c] = index[c] + 1]
              /\ UNCHANGED <<values, done, mangledDone, srcVars, npulls,
                             pc, pending>>]_vars

C17_Witness ==
    /\ variant = "async" /\ ncursors = 2
    /\ lenAtBirth[2] = 2 /\ values = <<0, 1>>
    /\ out[2] = <<0, 1>> /\ npulls[2] = 0
    /\ srcPos = 2 /\ ~srcClosed /\ ~mangledDone

\* C18 (cursor independence): the cursor __iter__ returns starts at position
\* zero whatever the cache and the other cursors hold, creating it moves no
\* other cursor, and a step of one cursor's next() moves no other cursor's
\* position.
C18_CursorIndependence ==
    [][/\ ncursors' = ncursors + 1 =>
            /\ index'[ncursors'] = 0
            /\ \A d \in Created : index'[d] = index[d]
       /\ \A c \in Cursors :
            (ncalls'[c] # ncalls[c] \/ pc'[c] # pc[c]) =>
                \A d \in Cursors \ {c} : index'[d] = index[d]]_vars

C18_Witness ==
    /\ ncursors = 2
    /\ lenAtBirth[2] = 2
    /\ index[1] = 2 /\ index[2] = 1

\* C16 (suspension point per element), as claimed: in the suspending variant
\* a cursor that has just returned a value does not return the next one
\* before its task has been suspended: the call that follows a returned value
\* does not return a value in the step in which it begins.
C16_YieldPerElement ==
    [][\A c \in Created :
          (variant = "async" /\ last[c] = "value" /\ ncalls'[c] = ncalls[c] + 1)
              => out'[c] = out[c]]_vars

\* C19 (termination, synchronous): a cursor that keeps being scheduled
\* signals the end (unless the source raises a failure), and when it does over
\* a source that raised no failure it has been returned exactly S, in
\* len(S) + 1 calls, whichever cursors pulled the values.
C19_Termination ==
    /\ \A c \in Cursors : (c \in Created) ~> (ended[c] \/ failures > 0)
    /\ [](\A c \in Created :
            (ended[c] /\ failures = 0) =>
                (out[c] = S /\ ncalls[c] = Len(S) + 1))

C19_Witness ==
    /\ ncursors = 2 /\ failures = 0 /\ Len(S) = 2
    /\ lenAtBirth[2] = 0
    /\ ended[1] /\ ended[2]
    /\ npulls[1] = 2 /\ npulls[2] = 2
    /\ out[1] = S /\ out[2] = S

====
